---------------------------- MODULE Spec2Model ----------------------------
(***************************************************************************)
(* Model of the core of the kopia content repository:                      *)
(*                                                                         *)
(*   - the snapshot garbage collector (snapshot/snapshotgc/gc.go): the     *)
(*     mark walk that builds the live set, the sweep that classifies every *)
(*     content, the mutations it asks of the content store and the Stats   *)
(*     and error that Run returns;                                         *)
(*   - the version-1 pack index (repo/content/index_v1.go): the builder    *)
(*     that emits the index bytes and the reader that searches and         *)
(*     iterates them.                                                      *)
(*                                                                         *)
(* Spec is the collector's state machine, SpecWriter that of the collector *)
(* beside a snapshot writer, SpecIndex the index's and SpecReads that of   *)
(* an index whose reader may fail.  All range over the same variables;     *)
(* each keeps the other half at rest.                                      *)
(*                                                                         *)
(* Content IDs, byte strings and blob IDs are sequences of numbers: the    *)
(* ASCII codes of an ID's characters, the byte values of a key.            *)
(***************************************************************************)
EXTENDS Integers, Sequences, FiniteSets, TLC

VARIABLES
    \* ---- content store, as the collector sees it through its facade ----
    contents,    \* the IDs of the contents the store holds
    timestamp,   \* content ID -> timestamp of its index entry (seconds)
    deleted,     \* content ID -> tombstone of its index entry
    now,         \* rep.Time()
    \* ---- one collector run ----
    pc,          \* "Idle" "Marking" "Walking" "Sweeping" "Flushing" "Done"
    gcDelete,    \* Run's gcDelete argument
    minAge,      \* safety.MinContentAgeSubjectToGC
    objectsLeft, \* objects of the snapshot trees the walker has yet to visit
    used,        \* the live set (sync.Map used)
    remaining,   \* contents IterateContents has yet to hand to the callback
    unused, inUse, system, tooRecent, undeleted,  \* stats.CountSum counters
    iterErr,     \* the error IterateContents returns ("none" while it has none)
    st,          \* the Stats Run returns
    err,         \* the error Run returns ("none" for nil)
    \* ---- history of the run (what a recording store would observe) ----
    calls,       \* the store calls made, in order
    acct,        \* content ID -> the categories it was added to, in order
    seenAt,      \* content ID -> rep.Time() when the callback was handed it (-1: not yet)
    deleted0,    \* the tombstones when Run was called
    \* ---- a snapshot writer beside the run ----
    committed,   \* the snapshot manifests committed: the contents each references, and when
    listed,      \* the manifests the mark listed
    toWalk,      \* those of them it has yet to walk
    listedAt,    \* rep.Time() when the mark listed the manifests (-1: not yet)
    \* ---- the pack index: a builder, the bytes it emits, a reader of them ----
    ipc,         \* "Adding" "Built" "Open" "Failed" "Read" "ReadAgain"
    bld,         \* packIndexBuilder: content ID -> Info
    file,        \* the bytes Build wrote to its output
    buildErr,    \* the error Build returned ("none" for nil)
    hdr,         \* indexV1.hdr of the opened index
    lastOp,      \* the reader operation last made, with its arguments
    out,         \* the Infos it handed to the callback (Iterate) or returned (GetInfo)
    opErr,       \* the error it returned ("none" for nil)
    issued       \* the reads it issued, in order (what a recording reader observes)

gcVars == <<contents, timestamp, deleted, now, pc, gcDelete, minAge, objectsLeft, used,
            remaining, unused, inUse, system, tooRecent, undeleted, iterErr,
            st, err, calls, acct, seenAt, deleted0, committed, listed,
            toWalk, listedAt>>

wrVars == <<committed, listed, toWalk, listedAt>>

ixVars == <<ipc, bld, file, buildErr, hdr, lastOp, out, opErr, issued>>

vars == <<gcVars, ixVars>>

-----------------------------------------------------------------------------
\* Bounds of the model.

\* data contents in the store (besides the manifest content)
NumData == 2
\* objects reachable from the snapshot roots, at most
NumObjects == 2
\* entries given to the index builder, at most
MaxEntries == 3
\* the clock and the safety window range over 0..MaxTime; a content is dated
\* at either end of that range
MaxTime == 1

-----------------------------------------------------------------------------
\* Content identifiers.

\* one lower-case hex digit, as encoding/hex writes it
HexDigit(n) == IF n < 10 THEN 48 + n ELSE 87 + n

RECURSIVE HexEncodeToString(_)
HexEncodeToString(b) ==
    IF b = <<>> THEN <<>>
    ELSE <<HexDigit(Head(b) \div 16), HexDigit(Head(b) % 16)>>
         \o HexEncodeToString(Tail(b))

\* ID.Prefix(): the single leading character of an ID of odd length
Prefix(id) == IF Len(id) % 2 = 1 THEN <<id[1]>> ELSE <<>>

\* manifest.ContentPrefix = "m"
ContentPrefix == <<109>>

\* The store's contents: one manifest content and NumData data contents,
\* alternately unprefixed (file data) and prefixed "k" (directory listings).
ManifestIDs == {ContentPrefix \o HexEncodeToString(<<0, 0>>)}
DataID(i) ==
    (IF i % 2 = 1 THEN <<>> ELSE <<107>>) \o HexEncodeToString(<<0, i>>)
DataIDs == {DataID(i) : i \in 1..NumData}
ContentIDs == ManifestIDs \cup DataIDs

\* ci.GetPackedLength(): distinct powers of two, so that a byte sum tells
\* which contents were added to it.
RECURSIVE Pow2(_)
Pow2(n) == IF n = 0 THEN 1 ELSE 2 * Pow2(n - 1)
PackedLength(c) ==
    IF c \in ManifestIDs THEN 1
    ELSE Pow2(CHOOSE i \in 1..NumData : DataID(i) = c)

-----------------------------------------------------------------------------
\* Statistics.

\* stats.CountSum.Add: one more item of the given size
Add(cs, size) == [count |-> cs.count + 1, sum |-> cs.sum + size]

ZeroCountSum == [count |-> 0, sum |-> 0]

\* var st Stats
ZeroStats ==
    [UnusedCount |-> 0, UnusedBytes |-> 0, InUseCount |-> 0, InUseBytes |-> 0,
     SystemCount |-> 0, SystemBytes |-> 0, TooRecentCount |-> 0,
     TooRecentBytes |-> 0, UndeletedCount |-> 0, UndeletedBytes |-> 0]

\* (mutation) the error returns placed before the Stats are populated
StatsAfterReturns ==
    IF iterErr # "none" \/ (unused.count > 0 /\ ~gcDelete)
    THEN ZeroStats
    ELSE [UnusedCount |-> unused.count, UnusedBytes |-> unused.sum,
          InUseCount |-> inUse.count, InUseBytes |-> inUse.sum,
          SystemCount |-> system.count, SystemBytes |-> system.sum,
          TooRecentCount |-> tooRecent.count, TooRecentBytes |-> tooRecent.sum,
          UndeletedCount |-> undeleted.count, UndeletedBytes |-> undeleted.sum]

\* st.XCount, st.XBytes = x.Approximate(), for the five counters
PopulatedStats ==
    [UnusedCount |-> unused.count, UnusedBytes |-> unused.sum,
     InUseCount |-> inUse.count, InUseBytes |-> inUse.sum,
     SystemCount |-> system.count, SystemBytes |-> system.sum,
     TooRecentCount |-> tooRecent.count, TooRecentBytes |-> tooRecent.sum,
     UndeletedCount |-> undeleted.count, UndeletedBytes |-> undeleted.sum]

\* The sweep reports progress, and checkpoints, each time the unused count
\* reaches a multiple of this period.  The program's period is 100000; the
\* model scales it down to the number of contents it can hold.
CheckpointPeriod == 2

-----------------------------------------------------------------------------
\* The content store facade.

\* DeleteContent(id): mark the entry deleted
DeleteContent(d, id) == [d EXCEPT ![id] = TRUE]
\* UndeleteContent(id): clear the entry's tombstone
UndeleteContent(d, id) == [d EXCEPT ![id] = FALSE]

\* one entry of the history of store calls
Call(op, id, ok, final) == [op |-> op, id |-> id, ok |-> ok, final |-> final]

\* the errors Run can return, as runInternal words them
ErrNone == "none"
ErrMark == "unable to find in-use content ID"
ErrIterate == "error iterating contents"
ErrDryRun == "Not deleting because '--delete' flag was not set"
ErrFlush == "flush error"

-----------------------------------------------------------------------------
\* The collector.

storeVars == <<contents, timestamp, deleted, now>>
inputVars == <<gcDelete, minAge>>
counterVars == <<unused, inUse, system, tooRecent, undeleted>>
resultVars == <<st, err>>

InitGC ==
    /\ contents \in SUBSET ContentIDs
    /\ timestamp \in [ContentIDs -> {0, MaxTime}]
    /\ deleted \in [ContentIDs -> BOOLEAN]
    \* an ID the store does not hold has neither; the model gives it these
    /\ \A c \in ContentIDs \ contents : timestamp[c] = 0 /\ ~deleted[c]
    /\ now \in 0..MaxTime
    /\ pc = "Idle"
    /\ gcDelete = FALSE
    /\ minAge = 0
    /\ objectsLeft = 0
    /\ used = {}
    /\ remaining = {}
    /\ unused = ZeroCountSum
    /\ inUse = ZeroCountSum
    /\ system = ZeroCountSum
    /\ tooRecent = ZeroCountSum
    /\ undeleted = ZeroCountSum
    /\ iterErr = ErrNone
    /\ st = ZeroStats
    /\ err = ErrNone
    /\ calls = <<>>
    /\ acct = [c \in ContentIDs |-> <<>>]
    /\ seenAt = [c \in ContentIDs |-> -1]
    /\ deleted0 = deleted
    /\ committed = {}
    /\ listed = {}
    /\ toWalk = {}
    /\ listedAt = -1

\* Run(ctx, rep, gcDelete, safety): the call, up to the start of the mark.
\* The snapshots reach n objects.
RunStart(d, m, n) ==
    /\ pc = "Idle"
    /\ pc' = "Marking"
    /\ gcDelete' = d
    /\ minAge' = m
    /\ objectsLeft' = n
    /\ deleted0' = deleted
    /\ UNCHANGED <<ixVars, wrVars, storeVars, used, remaining, counterVars, iterErr,
                   resultVars, calls, acct, seenAt>>

\* findInUseContentIDs fails: runInternal returns before the sweep, and Run
\* returns the Stats it declared.
MarkFailed ==
    /\ pc' = "Done"
    /\ err' = ErrMark
    /\ UNCHANGED <<ixVars, wrVars, storeVars, inputVars, objectsLeft, used, remaining,
                   counterVars, iterErr, st, calls, acct, seenAt, deleted0>>

\* ListSnapshotManifests, LoadSnapshots or SnapshotRoot returns an error.
MarkSetupFail ==
    /\ pc = "Marking"
    /\ MarkFailed

\* The manifests are listed and loaded and the roots resolved.
MarkSetup ==
    /\ pc = "Marking"
    /\ pc' = "Walking"
    /\ UNCHANGED <<ixVars, wrVars, storeVars, inputVars, objectsLeft, used, remaining,
                   counterVars, iterErr, resultVars, calls, acct, seenAt,
                   deleted0>>

\* ObjectCallback on one object: VerifyObject returns the IDs of the
\* contents backing it and each is stored in the live set.
ObjectCallback(cids) ==
    /\ pc = "Walking"
    /\ objectsLeft > 0
    /\ cids \subseteq contents
    /\ objectsLeft' = objectsLeft - 1
    /\ used' = used \cup cids
    /\ UNCHANGED <<ixVars, wrVars, storeVars, inputVars, pc, remaining, counterVars, iterErr,
                   resultVars, calls, acct, seenAt, deleted0>>

\* VerifyObject returns an error on some object, or the walk itself fails:
\* w.Run returns the error.
WalkFail(verify) ==
    /\ pc = "Walking"
    /\ verify => objectsLeft > 0
    /\ MarkFailed

\* (mutation) the walk taken to have returned while objects are unvisited
WalkFinishedEarly == TRUE

\* w.Run has visited every object reachable from the roots
WalkFinished == objectsLeft = 0

\* w.Run returns nil; runInternal calls IterateContents with IncludeDeleted,
\* which will yield every content, tombstoned or not, in an order of the
\* store's choosing.
WalkDone ==
    /\ pc = "Walking"
    /\ WalkFinished
    /\ pc' = "Sweeping"
    /\ remaining' = contents
    /\ calls' = Append(calls, Call("IterateContents", <<>>, TRUE, FALSE))
    /\ UNCHANGED <<ixVars, wrVars, storeVars, inputVars, objectsLeft, used, counterVars,
                   iterErr, resultVars, acct, seenAt, deleted0>>

\* rep.Time() advances.  The run reads the clock only in the sweep.
Tick ==
    /\ pc = "Sweeping"
    /\ now < MaxTime
    /\ now' = now + 1
    /\ UNCHANGED <<ixVars, wrVars, contents, timestamp, deleted, inputVars, pc, objectsLeft, used,
                   remaining, counterVars, iterErr, resultVars, calls, acct,
                   seenAt, deleted0>>

\* ---- the IterateContents callback, branch by branch ----

\* (mutation) the live-set test made before the prefix test
IsSystemAfterUsed(c) == Prefix(c) = ContentPrefix /\ c \notin used

\* manifest.ContentPrefix == ci.GetContentID().Prefix()
IsSystem(c) == Prefix(c) = ContentPrefix

\* (mutation) a tombstoned content taken for unreferenced
IsUsedUnlessDeleted(c) == c \in used /\ ~deleted[c]

\* _, ok := used.Load(ci.GetContentID())
IsUsed(c) == c \in used

\* (mutation) the window one second short
IsTooRecentShort(c) == now - timestamp[c] < minAge - 1
\* (mutation) <= for <
IsTooRecentInclusive(c) == now - timestamp[c] <= minAge

\* rep.Time().Sub(ci.Timestamp()) < safety.MinContentAgeSubjectToGC
IsTooRecent(c) == now - timestamp[c] < minAge

\* (mutation) the checkpoint one entry early
AtCheckpointEarly(cnt) == (cnt + 1) % CheckpointPeriod = 0

\* cnt%100000 == 0
AtCheckpoint(cnt) == cnt % CheckpointPeriod = 0

\* (mutation) the tombstone never looked at
GetDeletedNever(c) == FALSE

\* ci.GetDeleted(), of the entry the iteration yields
GetDeleted(c) == deleted[c]

\* (mutation) the iteration going on after an error
IterationGoesOn == FALSE

\* IterateContents has an error to return: a callback's, or its own
IterationEnded == iterErr # ErrNone

\* the callback is handed c
Yielded(c) ==
    /\ pc = "Sweeping"
    /\ ~IterationEnded
    /\ c \in remaining
    /\ remaining' = remaining \ {c}
    /\ seenAt' = [seenAt EXCEPT ![c] = now]

Account(c, cats) == acct' = [acct EXCEPT ![c] = acct[c] \o cats]

\* system.Add; return nil
CallbackSystem(c) ==
    /\ Yielded(c)
    /\ IsSystem(c)
    /\ system' = Add(system, PackedLength(c))
    /\ Account(c, <<"system">>)
    /\ UNCHANGED <<ixVars, wrVars, storeVars, inputVars, pc, objectsLeft, used, unused, inUse,
                   tooRecent, undeleted, iterErr, resultVars, calls, deleted0>>

\* the content is in the live set: undelete it if it is deleted (ok: the
\* result of UndeleteContent), then inUse.Add
CallbackInUse(c, ok) ==
    /\ Yielded(c)
    /\ ~IsSystem(c)
    /\ IsUsed(c)
    /\ IF GetDeleted(c)
       THEN /\ calls' = Append(calls, Call("UndeleteContent", c, ok, FALSE))
            /\ IF ok
               THEN /\ deleted' = UndeleteContent(deleted, c)
                    /\ undeleted' = Add(undeleted, PackedLength(c))
                    /\ inUse' = Add(inUse, PackedLength(c))
                    /\ Account(c, <<"undeleted", "inUse">>)
                    /\ UNCHANGED iterErr
               ELSE /\ iterErr' = "Could not undelete referenced content"
                    /\ UNCHANGED <<deleted, undeleted, inUse, acct>>
       ELSE /\ ok
            /\ inUse' = Add(inUse, PackedLength(c))
            /\ Account(c, <<"inUse">>)
            /\ UNCHANGED <<deleted, undeleted, iterErr, calls>>
    /\ UNCHANGED <<ixVars, wrVars, contents, timestamp, now, inputVars, pc, objectsLeft, used, unused,
                   system, tooRecent, resultVars, deleted0>>

\* unreferenced and younger than the safety window: tooRecent.Add
CallbackTooRecent(c) ==
    /\ Yielded(c)
    /\ ~IsSystem(c)
    /\ ~IsUsed(c)
    /\ IsTooRecent(c)
    /\ tooRecent' = Add(tooRecent, PackedLength(c))
    /\ Account(c, <<"tooRecent">>)
    /\ UNCHANGED <<ixVars, wrVars, storeVars, inputVars, pc, objectsLeft, used, unused, inUse,
                   system, undeleted, iterErr, resultVars, calls, deleted0>>

\* (mutation) the calls made whether or not gcDelete is set
UnusedCallsUnasked(c, cnt, delOk, flushOk) ==
    <<Call("DeleteContent", c, delOk, FALSE)>>
    \o (IF delOk /\ AtCheckpoint(cnt)
        THEN <<Call("Flush", <<>>, flushOk, FALSE)>> ELSE <<>>)

\* the calls the callback makes for an unused content: DeleteContent if
\* gcDelete (delOk: its result) and, when it succeeded or was not asked for,
\* a checkpoint Flush if gcDelete and the count is at a checkpoint (flushOk)
UnusedCalls(c, cnt, delOk, flushOk) ==
    (IF gcDelete THEN <<Call("DeleteContent", c, delOk, FALSE)>> ELSE <<>>)
    \o (IF (gcDelete => delOk) /\ AtCheckpoint(cnt) /\ gcDelete
        THEN <<Call("Flush", <<>>, flushOk, FALSE)>> ELSE <<>>)

\* unreferenced and old enough: unused.Add, DeleteContent, checkpoint
CallbackUnused(c, delOk, flushOk) ==
    /\ Yielded(c)
    /\ ~IsSystem(c)
    /\ ~IsUsed(c)
    /\ ~IsTooRecent(c)
    /\ unused' = Add(unused, PackedLength(c))
    /\ Account(c, <<"unused">>)
    /\ LET made == UnusedCalls(c, unused'.count, delOk, flushOk)
       IN  /\ calls' = calls \o made
           \* a result is drawn only for a call that is made
           /\ (\A i \in 1..Len(made) : made[i].op # "DeleteContent") => delOk
           /\ (\A i \in 1..Len(made) : made[i].op # "Flush") => flushOk
           /\ deleted' = IF gcDelete /\ delOk
                         THEN DeleteContent(deleted, c) ELSE deleted
           /\ iterErr' = IF ~delOk THEN "error deleting content"
                         ELSE IF ~flushOk THEN ErrFlush
                         ELSE iterErr
    /\ UNCHANGED <<ixVars, wrVars, contents, timestamp, now, inputVars, pc, objectsLeft, used, inUse,
                   system, tooRecent, undeleted, resultVars, deleted0>>

\* the store's iteration itself fails (an index it cannot read)
IterateFail ==
    /\ pc = "Sweeping"
    /\ iterErr = ErrNone
    /\ iterErr' = "store"
    /\ UNCHANGED <<ixVars, wrVars, storeVars, inputVars, pc, objectsLeft, used, remaining,
                   counterVars, resultVars, calls, acct, seenAt, deleted0>>

\* ---- after IterateContents returns ----

\* (mutation) the unused count not looked at
DryRunAlways(s) == ~gcDelete
\* (mutation) the dry run never reported
DryRunNever(s) == FALSE

\* st.UnusedCount > 0 && !gcDelete
DryRunFound(s) == s.UnusedCount > 0 /\ ~gcDelete

\* the Stats are populated; then the iteration's error, or the dry run's, is
\* returned, or the final Flush is due
AfterIterate ==
    /\ pc = "Sweeping"
    /\ iterErr # ErrNone \/ remaining = {}
    /\ st' = PopulatedStats
    /\ IF iterErr # ErrNone
       THEN pc' = "Done" /\ err' = ErrIterate
       ELSE IF DryRunFound(st')
       THEN pc' = "Done" /\ err' = ErrDryRun
       ELSE pc' = "Flushing" /\ UNCHANGED err
    /\ UNCHANGED <<ixVars, wrVars, storeVars, inputVars, objectsLeft, used, remaining,
                   counterVars, iterErr, calls, acct, seenAt, deleted0>>

\* return errors.Wrap(rep.Flush(ctx), "flush error")
FinalFlush(ok) ==
    /\ pc = "Flushing"
    /\ pc' = "Done"
    /\ calls' = Append(calls, Call("Flush", <<>>, ok, TRUE))
    /\ err' = IF ok THEN ErrNone ELSE ErrFlush
    /\ UNCHANGED <<ixVars, wrVars, storeVars, inputVars, objectsLeft, used, remaining,
                   counterVars, iterErr, st, acct, seenAt, deleted0>>

NextGC ==
    \/ \E d \in BOOLEAN, m \in 0..MaxTime, n \in 0..NumObjects : RunStart(d, m, n)
    \/ MarkSetupFail
    \/ MarkSetup
    \/ \E cids \in SUBSET ContentIDs : ObjectCallback(cids)
    \/ \E verify \in BOOLEAN : WalkFail(verify)
    \/ WalkDone
    \/ Tick
    \/ \E c \in ContentIDs : CallbackSystem(c)
    \/ \E c \in ContentIDs, ok \in BOOLEAN : CallbackInUse(c, ok)
    \/ \E c \in ContentIDs : CallbackTooRecent(c)
    \/ \E c \in ContentIDs, delOk \in BOOLEAN, flushOk \in BOOLEAN :
          CallbackUnused(c, delOk, flushOk)
    \/ IterateFail
    \/ AfterIterate
    \/ \E ok \in BOOLEAN : FinalFlush(ok)

-----------------------------------------------------------------------------
\* The collector beside a snapshot writer.
\*
\* The contents the writer has written are in the store, dated when it wrote
\* them; what it does beside the run is commit the manifests that reference
\* them.  The mark lists the manifests committed so far and walks each; the
\* sweep is the one above.  The store's calls succeed.

\* one committed snapshot manifest
Manifest(refs, at) == [refs |-> refs, at |-> at]

\* the writer commits a manifest that references the contents refs
Commit(refs) ==
    /\ Cardinality(committed) < NumObjects
    /\ committed' = committed \cup {Manifest(refs, now)}
    /\ committed' # committed
    /\ UNCHANGED <<ixVars, storeVars, inputVars, pc, objectsLeft, used, remaining,
                   counterVars, iterErr, resultVars, calls, acct, seenAt,
                   deleted0, listed, toWalk, listedAt>>

\* rep.Time() advances, at any moment
Advance ==
    /\ now < MaxTime
    /\ now' = now + 1
    /\ UNCHANGED <<ixVars, wrVars, contents, timestamp, deleted, inputVars, pc, objectsLeft,
                   used, remaining, counterVars, iterErr, resultVars, calls,
                   acct, seenAt, deleted0>>

\* ListSnapshotManifests and LoadSnapshots: the manifests committed by now;
\* the walker is given the root of each
ListSnapshots ==
    /\ pc = "Marking"
    /\ pc' = "Walking"
    /\ listed' = committed
    /\ toWalk' = committed
    /\ listedAt' = now
    /\ objectsLeft' = Cardinality(committed)
    /\ UNCHANGED <<ixVars, storeVars, inputVars, used, remaining, counterVars,
                   iterErr, resultVars, calls, acct, seenAt, deleted0,
                   committed>>

\* the walk of one listed snapshot: ObjectCallback stores the IDs of the
\* contents it references in the live set
WalkSnapshot(m) ==
    /\ pc = "Walking"
    /\ m \in toWalk
    /\ toWalk' = toWalk \ {m}
    /\ objectsLeft' = objectsLeft - 1
    /\ used' = used \cup m.refs
    /\ UNCHANGED <<ixVars, storeVars, inputVars, pc, remaining, counterVars,
                   iterErr, resultVars, calls, acct, seenAt, deleted0,
                   committed, listed, listedAt>>

NextWriter ==
    \/ \E refs \in (SUBSET DataIDs) \ {{}} : Commit(refs)
    \/ Advance
    \/ \E d \in BOOLEAN, m \in 0..MaxTime : RunStart(d, m, 0)
    \/ ListSnapshots
    \/ \E m \in toWalk : WalkSnapshot(m)
    \/ WalkDone
    \/ \E c \in ContentIDs : CallbackSystem(c)
    \/ \E c \in ContentIDs : CallbackInUse(c, TRUE)
    \/ \E c \in ContentIDs : CallbackTooRecent(c)
    \/ \E c \in ContentIDs : CallbackUnused(c, TRUE, TRUE)
    \/ AfterIterate
    \/ FinalFlush(TRUE)

-----------------------------------------------------------------------------
\* Bytes and integers of fixed width.  A wide integer (a 64-bit timestamp, a
\* 32-bit offset or length) is the sequence of its bytes, most significant
\* first, so that it keeps its width.

RECURSIVE BitOr(_, _)
BitOr(a, b) ==
    IF a = 0 THEN b
    ELSE IF b = 0 THEN a
    ELSE (IF a % 2 = 1 \/ b % 2 = 1 THEN 1 ELSE 0) + 2 * BitOr(a \div 2, b \div 2)

RECURSIVE BitAnd(_, _)
BitAnd(a, b) ==
    IF a = 0 \/ b = 0 THEN 0
    ELSE (IF a % 2 = 1 /\ b % 2 = 1 THEN 1 ELSE 0) + 2 * BitAnd(a \div 2, b \div 2)

\* a | b, byte by byte, of two integers of the same width
BytesOr(a, b) == [i \in 1..Len(a) |-> BitOr(a[i], b[i])]

\* n zero bytes
Zeros(n) == [i \in 1..n |-> 0]

\* binary.BigEndian.PutUint16 / PutUint32 of a small non-negative number
RECURSIVE BigEndian(_, _)
BigEndian(v, width) ==
    IF width = 0 THEN <<>>
    ELSE Append(BigEndian(v \div 256, width - 1), v % 256)

\* the number a few big-endian bytes spell (the index's counts and offsets)
RECURSIVE Decode(_)
Decode(b) ==
    IF b = <<>> THEN 0 ELSE 256 * Decode(SubSeq(b, 1, Len(b) - 1)) + b[Len(b)]

Reverse(s) == [i \in 1..Len(s) |-> s[Len(s) + 1 - i]]

\* s[from:], counting from 0 as Go does
From(s, from) == SubSeq(s, from + 1, Len(s))
\* s[from:to]
Slice(s, from, to) == SubSeq(s, from + 1, to)

\* a < b for Go strings and for byte keys: bytewise, a proper prefix first
RECURSIVE Less(_, _)
Less(a, b) ==
    IF b = <<>> THEN FALSE
    ELSE IF a = <<>> THEN TRUE
    ELSE IF Head(a) # Head(b) THEN Head(a) < Head(b)
    ELSE Less(Tail(a), Tail(b))

-----------------------------------------------------------------------------
\* Content IDs as index keys.

\* the value of one hex digit
HexValue(ch) == IF ch >= 97 THEN ch - 87 ELSE ch - 48

RECURSIVE HexDecode(_)
HexDecode(str) ==
    IF Len(str) < 2 THEN <<>>
    ELSE <<16 * HexValue(str[1]) + HexValue(str[2])>> \o HexDecode(From(str, 2))

\* contentIDToBytes: the prefix character, if the ID has one, then the
\* digest's bytes
contentIDToBytes(id) ==
    IF Len(id) % 2 = 1 THEN <<id[1]>> \o HexDecode(Tail(id)) ELSE HexDecode(id)

\* bytesToContentID: its inverse, for digests of an even number of bytes
bytesToContentID(b) ==
    IF Len(b) % 2 = 1 THEN <<b[1]>> \o HexEncodeToString(Tail(b))
    ELSE HexEncodeToString(b)

-----------------------------------------------------------------------------
\* Program constants of the index.

packHeaderSize == 8
entryFixedHeaderLength == 20
randomSuffixSize == 32
\* deletedMarker = 0x80000000, as four bytes
deletedMarker == <<128, 0, 0, 0>>
\* packOffsetMask = 1<<31 - 1, as four bytes
packOffsetMask == <<127, 255, 255, 255>>
\* keyLength of an index without entries: byte(-1)
unknownKeySize == 255
\* what GetPackBlobID returns when it cannot read the ID: "-invalid-blob-id-"
InvalidBlobID == <<45, 105, 110, 118, 97, 108, 105, 100, 45, 98, 108, 111, 98,
                   45, 105, 100, 45>>

-----------------------------------------------------------------------------
\* What the builder is given.

\* The content IDs: four digests of two bytes, bare and prefixed "k".
IndexDigests == {<<0, 255>>, <<10, 16>>, <<10, 17>>, <<171, 0>>}
IndexIDs ==
    {p \o HexEncodeToString(d) : p \in {<<>>, <<107>>}, d \in IndexDigests}

Info(id, ts, fv, blob, off, len, del) ==
    [contentID |-> id, timestampSeconds |-> ts, formatVersion |-> fv,
     packBlobID |-> blob, packOffset |-> off, packedLength |-> len,
     deleted |-> del]

\* The metadata an entry may carry: ordinary values with every byte
\* different, the extremes of each field, and two that the format cannot
\* hold (a pack offset with its top bit set, an empty pack blob ID).
Metas ==
    { Info(<<>>, <<0, 0, 1, 2, 3, 4, 5, 6>>, 1, <<112, 49>>,
           <<1, 2, 3, 4>>, <<10, 11, 12, 13>>, FALSE),
      Info(<<>>, <<0, 0, 1, 2, 3, 4, 5, 7>>, 1, <<113>>,
           <<1, 2, 3, 4>>, <<10, 11, 12, 13>>, TRUE),
      Info(<<>>, <<0, 0, 255, 255, 255, 255, 255, 255>>, 255, <<112>>,
           <<127, 255, 255, 255>>, <<255, 255, 255, 255>>, FALSE),
      Info(<<>>, Zeros(8), 0, <<112, 49>>, Zeros(4), Zeros(4), TRUE),
      Info(<<>>, <<0, 0, 1, 2, 3, 4, 5, 6>>, 1, <<112, 49>>,
           <<129, 2, 3, 4>>, <<10, 11, 12, 13>>, FALSE),
      Info(<<>>, <<0, 0, 1, 2, 3, 4, 5, 6>>, 1, <<>>,
           <<1, 2, 3, 4>>, <<10, 11, 12, 13>>, FALSE) }

\* Metadata the format can hold: a timestamp of 48 bits, a pack blob ID of 1
\* to 255 bytes, a pack offset of 31 bits.
ValidMetadata(it) ==
    /\ it.timestampSeconds[1] = 0 /\ it.timestampSeconds[2] = 0
    /\ Len(it.packBlobID) \in 1..255
    /\ it.packOffset[1] < 128

\* the 32 bytes crypto/rand may return
RandomSuffixes == {[i \in 1..randomSuffixSize |-> b] : b \in {0, 255}}

-----------------------------------------------------------------------------
\* The builder.

\* the entry of s with the least key
LeastKey(S) ==
    CHOOSE it \in S :
       \A other \in S \ {it} :
          Less(contentIDToBytes(it.contentID), contentIDToBytes(other.contentID))

\* sortedContents: the builder's entries, ascending by content ID bytes
RECURSIVE SortedSeq(_)
SortedSeq(S) ==
    IF S = {} THEN <<>>
    ELSE LET it == LeastKey(S) IN <<it>> \o SortedSeq(S \ {it})

sortedContents(b) == SortedSeq({b[id] : id \in DOMAIN b})

\* (mutation) every entry's pack blob ID appended
PooledNever(offsets, id) == FALSE

\* _, ok := b.packBlobIDOffsets[it.GetPackBlobID()]
Pooled(offsets, id) == id \in DOMAIN offsets

\* the loop of prepareExtraData over allContents[i..]: offsets is
\* b.packBlobIDOffsets, extraData the bytes pooled so far
RECURSIVE PoolPackBlobIDs(_, _, _, _)
PoolPackBlobIDs(allContents, i, offsets, extraData) ==
    IF i > Len(allContents)
    THEN [packBlobIDOffsets |-> offsets, extraData |-> extraData]
    ELSE LET id == allContents[i].packBlobID
         IN  IF id # <<>> /\ ~Pooled(offsets, id)
             THEN PoolPackBlobIDs(allContents, i + 1,
                                  offsets @@ (id :> Len(extraData)),
                                  extraData \o id)
             ELSE PoolPackBlobIDs(allContents, i + 1, offsets, extraData)

\* prepareExtraData: the indexBuilderV1 it leaves, and the extra data
prepareExtraData(allContents) ==
    LET keyLength ==
            IF allContents = <<>> THEN -1
            ELSE Len(contentIDToBytes(allContents[1].contentID))
        pool == PoolPackBlobIDs(allContents, 1, <<>>, <<>>)
    IN  [keyLength |-> keyLength,
         entryLength |-> entryFixedHeaderLength,
         entryCount |-> Len(allContents),
         packBlobIDOffsets |-> pool.packBlobIDOffsets,
         extraDataOffset |->
            packHeaderSize
              + Len(allContents) * (keyLength + entryFixedHeaderLength),
         extraData |-> pool.extraData]

\* (mutation) the timestamp written without its shift past the two flag bytes
TimestampAndFlagsUnshifted(it) ==
    BytesOr(it.timestampSeconds,
            BytesOr(Zeros(6) \o <<it.formatVersion % 256, 0>>,
                    Zeros(6) \o BigEndian(Len(it.packBlobID), 2)))

\* uint64(ts)<<16 | uint64(formatVersion)<<8 | uint64(len(packBlobID))
TimestampAndFlags(it) ==
    BytesOr(From(it.timestampSeconds, 2) \o <<0, 0>>,
            BytesOr(Zeros(6) \o <<it.formatVersion % 256, 0>>,
                    Zeros(6) \o BigEndian(Len(it.packBlobID), 2)))

\* (mutation) the deleted marker never set
PackedOffsetUnmarked(it) == it.packOffset

\* it.GetPackOffset()|deletedMarker if it is deleted, else it.GetPackOffset()
PackedOffset(it) ==
    IF it.deleted THEN BytesOr(it.packOffset, deletedMarker) ELSE it.packOffset

\* formatEntry: the 20 bytes of an entry, or an error
formatEntry(b1, it) ==
    IF Len(it.packBlobID) = 0
    THEN [err |-> "empty pack content ID", entry |-> <<>>]
    ELSE [err |-> "none",
          entry |->
             TimestampAndFlags(it)
             \o BigEndian(b1.extraDataOffset
                            + b1.packBlobIDOffsets[it.packBlobID], 4)
             \o PackedOffset(it)
             \o it.packedLength]

\* (mutation) the key's length not compared
KeyLengthUnchecked(b1, k) == FALSE

\* len(k) != b.keyLength
KeyLengthDiffers(b1, k) == Len(k) # b1.keyLength

\* writeEntry: the bytes it writes (key, then entry), or an error
writeEntry(b1, it) ==
    LET k == contentIDToBytes(it.contentID)
    IN  IF KeyLengthDiffers(b1, k)
        THEN [err |-> "inconsistent key length", bytes |-> <<>>]
        ELSE LET f == formatEntry(b1, it)
             IN  IF f.err # "none"
                 THEN [err |-> f.err, bytes |-> <<>>]
                 ELSE [err |-> "none", bytes |-> k \o f.entry]

\* the loop of buildV1 over allContents[i..], written holding the bytes
\* written so far
RECURSIVE WriteEntries(_, _, _, _)
WriteEntries(b1, allContents, i, written) ==
    IF i > Len(allContents) THEN [err |-> "none", bytes |-> written]
    ELSE LET w == writeEntry(b1, allContents[i])
         IN  IF w.err # "none" THEN [err |-> w.err, bytes |-> <<>>]
             ELSE WriteEntries(b1, allContents, i + 1, written \o w.bytes)

\* (mutation) the entries written in the order the builder holds them
UnsortedContents(b) ==
    LET S == {b[id] : id \in DOMAIN b}
    IN  IF S = {} THEN <<>> ELSE Reverse(SortedSeq(S))

\* allContents := b.sortedContents()
AllContents(b) == sortedContents(b)

\* buildV1: what reaches the output (nothing, if it returns an error before
\* it flushes its buffered writer), and the error
buildV1(b, randomSuffix) ==
    LET allContents == AllContents(b)
        b1 == prepareExtraData(allContents)
        header == <<1, b1.keyLength % 256>>
                  \o BigEndian(b1.entryLength, 2)
                  \o BigEndian(b1.entryCount, 4)
        rows == WriteEntries(b1, allContents, 1, <<>>)
    IN  IF rows.err # "none"
        THEN [err |-> rows.err, bytes |-> <<>>]
        ELSE [err |-> "none",
              bytes |-> header \o rows.bytes \o b1.extraData \o randomSuffix]

-----------------------------------------------------------------------------
\* The reader.

\* readerAt.ReadAt(buf[0:len], off): the bytes read and whether the read is
\* complete (a read that ends past the end of the file is not, and returns
\* io.EOF)
ReadAt(f, len, off) ==
    IF off + len <= Len(f)
    THEN [ok |-> TRUE, bytes |-> Slice(f, off, off + len)]
    ELSE [ok |-> FALSE, bytes |-> From(f, off)]

\* readHeader: version, key size, entry size, entry count
readHeader(f) ==
    LET h == ReadAt(f, packHeaderSize, 0)
    IN  IF ~h.ok THEN [err |-> "invalid header"]
        ELSE IF h.bytes[1] # 1 \/ Decode(Slice(h.bytes, 2, 4)) # entryFixedHeaderLength
        THEN [err |-> "invalid header"]
        ELSE [err |-> "none",
              keySize |-> h.bytes[2],
              valueSize |-> Decode(Slice(h.bytes, 2, 4)),
              entryCount |-> Decode(Slice(h.bytes, 4, 8))]

\* ---- the accessors of indexEntryInfoV1, on its data ----

\* decodeBigEndianUint48(e.data), as an int64
GetTimestampSeconds(data) == <<0, 0>> \o Slice(data, 0, 6)
GetFormatVersion(data) == data[7]
GetPackBlobID(f, data) ==
    LET nameLength == data[8]
        nameOffset == Decode(Slice(data, 8, 12))
        r == ReadAt(f, nameLength, nameOffset)
    IN  IF r.ok THEN r.bytes ELSE InvalidBlobID
\* (mutation) the marker looked for in the lowest bit
GetDeletedLowBit(data) == BitAnd(data[13], 1) # 0
\* e.data[12]&0x80 != 0
GetEntryDeleted(data) == BitAnd(data[13], 128) # 0
\* decodeBigEndianUint32(e.data[12:]) & packOffsetMask
GetPackOffset(data) ==
    [i \in 1..4 |-> BitAnd(Slice(data, 12, 16)[i], packOffsetMask[i])]
GetPackedLength(data) == Slice(data, 16, 20)

\* entryToInfo, and what the accessors of the Info it makes return
entryToInfo(f, contentID, entryData) ==
    IF Len(entryData) < entryFixedHeaderLength
    THEN [err |-> "invalid entry length"]
    ELSE [err |-> "none",
          info |-> Info(contentID, GetTimestampSeconds(entryData),
                        GetFormatVersion(entryData), GetPackBlobID(f, entryData),
                        GetPackOffset(entryData), GetPackedLength(entryData),
                        GetEntryDeleted(entryData))]

\* ---- reads that fail ----

\* The reader under the index is the file and, at most, one ReadAt that does
\* not deliver: the one issued at a site of the code ("search": the probes of
\* findEntryPosition and findEntryPositionExact, "row": the read of Iterate's
\* loop, "entry": the re-read of findEntry) for one row.  It either returns an
\* error ("error") or returns fewer bytes than asked and no error ("short");
\* in both cases it leaves the buffer as it was.
NoFault == [site |-> "none"]
Faults ==
    {[site |-> s, row |-> p, kind |-> k] :
        s \in {"search", "row", "entry"}, p \in 0..(MaxEntries - 1),
        k \in {"error", "short"}}

\* n, err := b.readerAt.ReadAt(buf, off): what buf holds afterwards, n, and
\* whether err is non-nil
ReadInto(f, fault, site, row, buf, off) ==
    IF fault.site = site /\ fault.row = row
    THEN [buf |-> buf, n |-> 0, failed |-> fault.kind = "error"]
    ELSE LET r == ReadAt(f, Len(buf), off)
         IN  [buf |-> r.bytes \o From(buf, Len(r.bytes)),
              n |-> Len(r.bytes),
              failed |-> ~r.ok]

\* errors.Wrap(err, message): nil if err is nil
Wrap(failed, message) == IF failed THEN message ELSE "none"

\* ---- the searches ----

\* bytesToContentID(key) >= contentID, of findEntryPosition (asBytes false),
\* and contentIDBytesGreaterOrEqual(key, idBytes), of findEntryPositionExact
GreaterOrEqual(key, sought, asBytes) ==
    IF asBytes THEN ~Less(key, sought)
    ELSE ~Less(bytesToContentID(key), sought)

\* one entry of the history of reads: the site that issued it and the row
Read(site, row) == [site |-> site, row |-> row]

\* sort.Search(b.hdr.entryCount, func(p)) over lo..hi, by bisection, with the
\* closure of findEntryPosition and findEntryPositionExact: it reads row p
\* into entryBuf and compares its key, and once a read has failed (readErr)
\* it answers false without reading.  reads is the history of the reads.
RECURSIVE Search(_, _, _, _, _, _, _, _, _, _)
Search(f, h, fault, sought, asBytes, lo, hi, entryBuf, readErr, reads) ==
    IF lo >= hi
    THEN [pos |-> lo, failed |-> readErr, buf |-> entryBuf, reads |-> reads]
    ELSE LET p == (lo + hi) \div 2
             stride == h.keySize + h.valueSize
         IN  IF readErr
             THEN Search(f, h, fault, sought, asBytes, p + 1, hi, entryBuf,
                         TRUE, reads)
             ELSE LET r == ReadInto(f, fault, "search", p, entryBuf,
                                    packHeaderSize + stride * p)
                      made == Append(reads, Read("search", p))
                  IN  IF r.failed
                      THEN Search(f, h, fault, sought, asBytes, p + 1, hi,
                                  r.buf, TRUE, made)
                      ELSE IF GreaterOrEqual(Slice(r.buf, 0, h.keySize),
                                             sought, asBytes)
                      THEN Search(f, h, fault, sought, asBytes, lo, p,
                                  r.buf, FALSE, made)
                      ELSE Search(f, h, fault, sought, asBytes, p + 1, hi,
                                  r.buf, FALSE, made)

\* findEntryPosition: the first row whose content ID is >= contentID, and
\* readErr
findEntryPosition(f, h, fault, contentID) ==
    Search(f, h, fault, contentID, FALSE, 0, h.entryCount,
           Zeros(h.keySize + h.valueSize), FALSE, <<>>)

\* findEntryPositionExact: the first row whose key is >= idBytes, and readErr
findEntryPositionExact(f, h, fault, idBytes, entryBuf) ==
    Search(f, h, fault, idBytes, TRUE, 0, h.entryCount, entryBuf, FALSE, <<>>)

\* ---- Iterate ----

\* (mutation) the end of the range included
BeforeEndInclusive(contentID, endID) == ~Less(endID, contentID)

\* the negation of contentID >= r.EndID, on which the loop breaks
BeforeEnd(contentID, endID) == Less(contentID, endID)

\* (mutation) a read taken for complete whatever it returns
IncompleteNever(r, stride) == FALSE

\* err != nil || n != len(entry)
Incomplete(r, stride) == r.failed \/ r.n # stride

\* the loop of Iterate from row i: the Infos handed to the callback (which
\* returns nil), the error returned and the history of the reads
RECURSIVE IterateRows(_, _, _, _, _, _, _)
IterateRows(f, h, fault, i, endID, handed, reads) ==
    IF i >= h.entryCount
    THEN [err |-> "none", out |-> handed, reads |-> reads]
    ELSE LET stride == h.keySize + h.valueSize
             r == ReadInto(f, fault, "row", i, Zeros(stride),
                           packHeaderSize + stride * i)
             made == Append(reads, Read("row", i))
         IN  IF Incomplete(r, stride)
             THEN [err |-> Wrap(r.failed, "unable to read from index"),
                   out |-> handed, reads |-> made]
             ELSE LET contentID == bytesToContentID(Slice(r.buf, 0, h.keySize))
                  IN  IF ~BeforeEnd(contentID, endID)
                      THEN [err |-> "none", out |-> handed, reads |-> made]
                      ELSE LET e == entryToInfo(f, contentID, From(r.buf, h.keySize))
                           IN  IF e.err # "none"
                               THEN [err |-> "invalid index data",
                                     out |-> handed, reads |-> made]
                               ELSE IterateRows(f, h, fault, i + 1, endID,
                                                Append(handed, e.info), made)

\* Iterate(r, cb)
Iterate(f, h, fault, startID, endID) ==
    LET s == findEntryPosition(f, h, fault, startID)
    IN  IF s.failed
        THEN [err |-> "could not find starting position", out |-> <<>>,
              reads |-> s.reads]
        ELSE IterateRows(f, h, fault, s.pos, endID, <<>>, s.reads)

\* ---- GetInfo ----

\* (mutation) the row at the position taken without comparing its key
KeyFoundAlways(entryBuf, key) == TRUE

\* bytes.Equal(entryBuf[0:len(key)], key)
KeyFound(entryBuf, key) == Slice(entryBuf, 0, Len(key)) = key

\* (mutation) the index without entries not told apart
EmptyIndexBlobNever(h) == FALSE

\* b.hdr.keySize == unknownKeySize
EmptyIndexBlob(h) == h.keySize = unknownKeySize

\* findEntry: the entry's data (found) or nil, the error and the history of
\* the reads
findEntry(f, h, fault, contentID) ==
    LET key == contentIDToBytes(contentID)
        stride == h.keySize + h.valueSize
    IN  IF EmptyIndexBlob(h)
        THEN [err |-> "none", found |-> FALSE, reads |-> <<>>]
        ELSE IF Len(key) # h.keySize
        THEN [err |-> "invalid content ID", found |-> FALSE, reads |-> <<>>]
        ELSE LET s == findEntryPositionExact(f, h, fault, key, Zeros(stride))
             IN  IF s.failed
                 THEN [err |-> "read error", found |-> FALSE, reads |-> s.reads]
                 ELSE IF s.pos >= h.entryCount
                 THEN [err |-> "none", found |-> FALSE, reads |-> s.reads]
                 ELSE LET r == ReadInto(f, fault, "entry", s.pos, s.buf,
                                        packHeaderSize + stride * s.pos)
                          made == Append(s.reads, Read("entry", s.pos))
                      IN  IF r.failed
                          THEN [err |-> "error reading header",
                                found |-> FALSE, reads |-> made]
                          ELSE IF KeyFound(r.buf, key)
                          THEN [err |-> "none", found |-> TRUE,
                                entry |-> From(r.buf, Len(key)), reads |-> made]
                          ELSE [err |-> "none", found |-> FALSE, reads |-> made]

\* GetInfo(contentID): the Info, if any, as a sequence of at most one, the
\* error and the history of the reads
GetInfo(f, h, fault, contentID) ==
    LET e == findEntry(f, h, fault, contentID)
    IN  IF e.err # "none" THEN [err |-> e.err, out |-> <<>>, reads |-> e.reads]
        ELSE IF ~e.found THEN [err |-> "none", out |-> <<>>, reads |-> e.reads]
        ELSE LET i == entryToInfo(f, contentID, e.entry)
             IN  IF i.err # "none"
                 THEN [err |-> i.err, out |-> <<>>, reads |-> e.reads]
                 ELSE [err |-> "none", out |-> <<i.info>>, reads |-> e.reads]

\* AllIDs: the range of every content ID, from "" to the character after "z"
AllIDsStart == <<>>
AllIDsEnd == <<123>>

\* the ends of the ranges the model iterates: those of AllIDs, two IDs the
\* builder may hold and one it never holds
RangeEnds ==
    {AllIDsStart, AllIDsEnd, HexEncodeToString(<<10, 16>>),
     <<107>> \o HexEncodeToString(<<10, 17>>), <<107>> \o HexEncodeToString(<<11, 0>>)}

-----------------------------------------------------------------------------
\* The index's state machine.

NoHeader == [err |-> "closed"]
NoOp == [op |-> "none"]

IndexIdle ==
    /\ ipc = "Adding"
    /\ bld = <<>>
    /\ file = <<>>
    /\ buildErr = "none"
    /\ hdr = NoHeader
    /\ lastOp = NoOp
    /\ out = <<>>
    /\ opErr = "none"
    /\ issued = <<>>

\* packIndexBuilder.Add(i): b[i.GetContentID()] = i
BuilderAdd(id, meta) ==
    /\ ipc = "Adding"
    /\ id \notin DOMAIN bld
    /\ Cardinality(DOMAIN bld) < MaxEntries
    /\ bld' = bld @@ (id :> [meta EXCEPT !.contentID = id])
    /\ UNCHANGED <<gcVars, ipc, file, buildErr, hdr, lastOp, out, opErr, issued>>

\* packIndexBuilder.Build(output)
Build(randomSuffix) ==
    /\ ipc = "Adding"
    /\ LET r == buildV1(bld, randomSuffix)
       IN  /\ file' = r.bytes
           /\ buildErr' = r.err
    /\ ipc' = "Built"
    /\ UNCHANGED <<gcVars, bld, hdr, lastOp, out, opErr, issued>>

\* openPackIndex on the bytes a successful Build emitted
Open ==
    /\ ipc = "Built"
    /\ buildErr = "none"
    /\ hdr' = readHeader(file)
    /\ hdr'.err = "none"
    /\ ipc' = "Open"
    /\ UNCHANGED <<gcVars, bld, file, buildErr, lastOp, out, opErr, issued>>

\* the reads that can fail in Iterate, and in GetInfo
IterateFaults == {ft \in Faults : ft.site \in {"search", "row"}}
GetInfoFaults == {ft \in Faults : ft.site \in {"search", "entry"}}

\* a reader operation returns: after one whose reads all succeeded the model
\* follows the reader no further; after one with a failing read the caller
\* may call again
Returned(fault) ==
    ipc' = IF fault # NoFault THEN "Failed"
           ELSE IF ipc = "Failed" THEN "ReadAgain"
           ELSE "Read"

\* the reader is open and no call has been made; or a read failed in the
\* last call, and the caller makes the same call again, whose reads now all
\* succeed
MayCall(call) ==
    \/ ipc = "Open"
    \/ /\ ipc = "Failed"
       /\ call = [lastOp EXCEPT !.fault = NoFault]

\* b.Iterate(IDRange{startID, endID}, cb) with a callback that records the
\* Info and returns nil
DoIterate(startID, endID, fault) ==
    /\ MayCall([op |-> "Iterate", startID |-> startID, endID |-> endID,
                fault |-> fault])
    /\ LET r == Iterate(file, hdr, fault, startID, endID)
       IN  /\ out' = r.out
           /\ opErr' = r.err
           /\ issued' = r.reads
    /\ lastOp' = [op |-> "Iterate", startID |-> startID, endID |-> endID,
                  fault |-> fault]
    /\ Returned(fault)
    /\ UNCHANGED <<gcVars, bld, file, buildErr, hdr>>

\* b.GetInfo(contentID)
DoGetInfo(contentID, fault) ==
    /\ MayCall([op |-> "GetInfo", contentID |-> contentID, fault |-> fault])
    /\ LET r == GetInfo(file, hdr, fault, contentID)
       IN  /\ out' = r.out
           /\ opErr' = r.err
           /\ issued' = r.reads
    /\ lastOp' = [op |-> "GetInfo", contentID |-> contentID, fault |-> fault]
    /\ Returned(fault)
    /\ UNCHANGED <<gcVars, bld, file, buildErr, hdr>>

NextIndex ==
    \/ \E id \in IndexIDs, meta \in Metas : BuilderAdd(id, meta)
    \/ \E suffix \in RandomSuffixes : Build(suffix)
    \/ Open
    \/ \E startID \in RangeEnds, endID \in RangeEnds :
          DoIterate(startID, endID, NoFault)
    \/ \E id \in IndexIDs : DoGetInfo(id, NoFault)

\* The index read through a reader that may fail: the entries carry one of
\* two ordinary metadata, and any one read of an operation may fail.
ReadMetas ==
    {meta \in Metas :
        ValidMetadata(meta) /\ meta.packedLength = <<10, 11, 12, 13>>}

\* the content IDs it holds: the bare ones
ReadIDs == {HexEncodeToString(d) : d \in IndexDigests}

NextReads ==
    \/ \E id \in ReadIDs, meta \in ReadMetas : BuilderAdd(id, meta)
    \/ \E suffix \in RandomSuffixes : Build(suffix)
    \/ Open
    \/ \E startID \in RangeEnds, endID \in RangeEnds,
          fault \in IterateFaults \cup {NoFault} :
          DoIterate(startID, endID, fault)
    \/ \E id \in IndexIDs, fault \in GetInfoFaults \cup {NoFault} :
          DoGetInfo(id, fault)

\* the collector at rest
GCIdle ==
    /\ InitGC
    /\ contents = ContentIDs
    /\ timestamp = [c \in ContentIDs |-> 0]
    /\ deleted = [c \in ContentIDs |-> FALSE]
    /\ now = 0

Init == InitGC /\ IndexIdle
Next == NextGC
Spec == Init /\ [][Next]_vars

InitIndex == GCIdle /\ IndexIdle
SpecIndex == InitIndex /\ [][NextIndex]_vars

SpecReads == InitIndex /\ [][NextReads]_vars

\* the writer's store holds no tombstone when the model starts
InitWriter ==
    /\ Init
    /\ contents = ContentIDs
    /\ deleted = [c \in ContentIDs |-> FALSE]
SpecWriter == InitWriter /\ [][NextWriter]_vars


-----------------------------------------------------------------------------
\* What the history says.

\* IterateContents has been called
SweepStarted == Len(calls) > 0

\* the sweep handed every content to the callback and no call failed in it
SweepCompleted == SweepStarted /\ remaining = {} /\ iterErr = ErrNone

CalledOn(op, c) == \E i \in 1..Len(calls) : calls[i].op = op /\ calls[i].id = c
FailedOn(op, c) ==
    \E i \in 1..Len(calls) : calls[i].op = op /\ calls[i].id = c /\ ~calls[i].ok
FinalFlushCalled ==
    \E i \in 1..Len(calls) : calls[i].op = "Flush" /\ calls[i].final
NoCallFailed == \A i \in 1..Len(calls) : calls[i].ok

\* the callback was handed c
Handed(c) == seenAt[c] >= 0
\* the clock minus c's timestamp, when the callback was handed c
AgeSeen(c) == seenAt[c] - timestamp[c]

\* how often c was added to a category
Times(cat, c) == Cardinality({i \in 1..Len(acct[c]) : acct[c][i] = cat})

RECURSIVE SumLengths(_)
SumLengths(S) ==
    IF S = {} THEN 0
    ELSE LET c == CHOOSE x \in S : TRUE
         IN  PackedLength(c) + SumLengths(S \ {c})

\* the counter a category's additions add up to
Accounted(cat) ==
    LET S == {c \in ContentIDs : Times(cat, c) > 0}
    IN  [count |-> Cardinality(S), sum |-> SumLengths(S)]

\* every content was added to each category at most once, and the counters
\* are what the additions add up to
CountersMatch ==
    /\ \A c \in ContentIDs :
          \A cat \in {"system", "inUse", "undeleted", "tooRecent", "unused"} :
             Times(cat, c) <= 1
    /\ system = Accounted("system")
    /\ inUse = Accounted("inUse")
    /\ undeleted = Accounted("undeleted")
    /\ tooRecent = Accounted("tooRecent")
    /\ unused = Accounted("unused")

StatsOf(u, i, s, t, d) ==
    [UnusedCount |-> u.count, UnusedBytes |-> u.sum,
     InUseCount |-> i.count, InUseBytes |-> i.sum,
     SystemCount |-> s.count, SystemBytes |-> s.sum,
     TooRecentCount |-> t.count, TooRecentBytes |-> t.sum,
     UndeletedCount |-> d.count, UndeletedBytes |-> d.sum]

\* the Stats that the additions made so far add up to
AccountedStats ==
    StatsOf(Accounted("unused"), Accounted("inUse"), Accounted("system"),
            Accounted("tooRecent"), Accounted("undeleted"))

-----------------------------------------------------------------------------
\* Claims about the collector.

\* C1 (as stated) Safety window: a content that is not in the live set and is
\* younger than MinContentAgeSubjectToGC when it is classified is never
\* passed to DeleteContent, keeps its tombstone state, and is counted under
\* tooRecent exactly once.
C1_AsStated ==
    \A c \in ContentIDs :
       (Handed(c) /\ c \notin used /\ AgeSeen(c) < minAge)
       => /\ ~CalledOn("DeleteContent", c)
          /\ deleted[c] = deleted0[c]
          /\ Times("tooRecent", c) = 1

\* C1 (amended) The same, of a content without the manifest prefix; a content
\* with the manifest prefix that is not in the live set and is younger than
\* the window is not deleted either, keeps its tombstone state, and is
\* counted under system, not under tooRecent.
C1_SafetyWindow ==
    /\ \A c \in ContentIDs :
          (Handed(c) /\ c \notin used /\ AgeSeen(c) < minAge)
          => /\ ~CalledOn("DeleteContent", c)
             /\ deleted[c] = deleted0[c]
             /\ Prefix(c) # ContentPrefix => acct[c] = <<"tooRecent">>
             /\ Prefix(c) = ContentPrefix => Times("tooRecent", c) = 0
    /\ tooRecent = Accounted("tooRecent")

C1_Witness ==
    /\ pc = "Done" /\ err = ErrNone /\ gcDelete
    /\ \E c \in DataIDs :
          /\ c \notin used /\ Handed(c) /\ AgeSeen(c) < minAge
          /\ ~deleted[c] /\ tooRecent.count = 1
    /\ \E c \in DataIDs : CalledOn("DeleteContent", c)

C3_AsStated ==
    gcDelete =>
       \A c \in ContentIDs :
          (Handed(c) /\ Prefix(c) # ContentPrefix /\ c \notin used
             /\ (AgeSeen(c) >= minAge \/ minAge = 0))
          => /\ CalledOn("DeleteContent", c)
             /\ acct[c] = <<"unused">>
             /\ (pc = "Done" /\ err = ErrNone) => deleted[c]

\* C3 (amended) The same, without its last clause: with a window of zero it
\* holds of every unreferenced content without the manifest prefix whose
\* timestamp is not later than the clock when it is classified (a content
\* dated in the future has a negative age, and is counted under tooRecent).
C3_UnreferencedPastWindow ==
    /\ gcDelete =>
          \A c \in ContentIDs :
             (Handed(c) /\ Prefix(c) # ContentPrefix /\ c \notin used
                /\ AgeSeen(c) >= minAge)
             => /\ CalledOn("DeleteContent", c)
                /\ acct[c] = <<"unused">>
                /\ (pc = "Done" /\ err = ErrNone) => deleted[c]
    /\ unused = Accounted("unused")

C3_Witness ==
    /\ pc = "Done" /\ err = ErrNone /\ gcDelete /\ minAge > 0
    /\ \E c \in DataIDs :
          /\ c \notin used /\ AgeSeen(c) = minAge /\ ~deleted0[c] /\ deleted[c]
          /\ CalledOn("DeleteContent", c)

\* C4 Manifest-prefix exemption: a content with the manifest prefix is never
\* passed to DeleteContent nor to UndeleteContent, whatever its live-set
\* membership, age, tombstone or gcDelete, and is counted under system and
\* under no other category.
C4_ManifestExemption ==
    /\ \A c \in ContentIDs :
          Prefix(c) = ContentPrefix
          => /\ ~CalledOn("DeleteContent", c)
             /\ ~CalledOn("UndeleteContent", c)
             /\ deleted[c] = deleted0[c]
             /\ Handed(c) => acct[c] = <<"system">>
    /\ system = Accounted("system")

C4_Witness ==
    /\ pc = "Done" /\ err = ErrNone /\ gcDelete /\ minAge = 0
    /\ \E c \in ManifestIDs :
          /\ c \in used /\ deleted0[c] /\ AgeSeen(c) > 0 /\ acct[c] = <<"system">>

\* C5 Undelete-on-reference: a content without the manifest prefix that is
\* tombstoned in the store and in the live set is, after a Run that returns
\* no error, no longer tombstoned and counted under both undeleted and inUse.
C5_UndeleteOnReference ==
    /\ (pc = "Done" /\ err = ErrNone) =>
          \A c \in ContentIDs :
             (Prefix(c) # ContentPrefix /\ deleted0[c] /\ c \in used)
             => /\ ~deleted[c]
                /\ Times("undeleted", c) = 1
                /\ Times("inUse", c) = 1
    /\ undeleted = Accounted("undeleted")
    /\ inUse = Accounted("inUse")

C5_Witness ==
    /\ pc = "Done" /\ err = ErrNone
    /\ \E c \in DataIDs :
          /\ deleted0[c] /\ c \in used /\ ~deleted[c]
          /\ st.UndeletedCount = 1 /\ st.UndeletedBytes = PackedLength(c)

\* C6 (as stated) Dry-run signal: without gcDelete, if the sweep classifies a
\* content as unused, Run returns the error naming the delete flag, the
\* returned Stats have an unused count above zero, and DeleteContent was not
\* called.
C6_AsStated ==
    (pc = "Done" /\ ~gcDelete /\ unused.count > 0)
    => /\ err = ErrDryRun
       /\ st.UnusedCount > 0
       /\ \A i \in 1..Len(calls) : calls[i].op # "DeleteContent"

\* C6 (amended) The same, provided the iteration returns no error (no failed
\* UndeleteContent, no failure of the store's iteration): then Run returns
\* the error naming the delete flag.  If the iteration returns an error, Run
\* returns that error instead; the Stats are populated and DeleteContent was
\* not called in either case.
C6_DryRunSignal ==
    (pc = "Done" /\ ~gcDelete /\ unused.count > 0)
    => /\ iterErr = ErrNone => err = ErrDryRun
       /\ iterErr # ErrNone => err = ErrIterate
       /\ st.UnusedCount = unused.count
       /\ \A i \in 1..Len(calls) : calls[i].op # "DeleteContent"
       /\ deleted0 = [c \in ContentIDs |-> deleted[c] \/ CalledOn("UndeleteContent", c)]

C6_Witness ==
    /\ pc = "Done" /\ ~gcDelete /\ err = ErrDryRun
    /\ st.UnusedCount = NumData /\ iterErr = ErrNone

\* what the Stats of a run are, from the store, the live set, the clock at
\* each classification and the window -- gcDelete is not among them
ExpectedCategory(c) ==
    IF Prefix(c) = ContentPrefix THEN "system"
    ELSE IF c \in used THEN "inUse"
    ELSE IF AgeSeen(c) < minAge THEN "tooRecent"
    ELSE "unused"

Expected(cat) ==
    LET S == {c \in contents : ExpectedCategory(c) = cat}
    IN  [count |-> Cardinality(S), sum |-> SumLengths(S)]

ExpectedUndeleted ==
    LET S == {c \in contents : ExpectedCategory(c) = "inUse" /\ deleted0[c]}
    IN  [count |-> Cardinality(S), sum |-> SumLengths(S)]

\* C7 Dry run and real run agree on statistics: when no store call fails, the
\* Stats Run returns are determined, in all five categories (counts and byte
\* sums), by the store's contents, the live set, the clock and the safety
\* window alone; so the runs with and without gcDelete return the same Stats.
C7_StatsIndependentOfDelete ==
    (pc = "Done" /\ SweepCompleted /\ NoCallFailed)
    => st = StatsOf(Expected("unused"), Expected("inUse"), Expected("system"),
                    Expected("tooRecent"), ExpectedUndeleted)

C7_Witness ==
    /\ pc = "Done" /\ SweepCompleted /\ NoCallFailed /\ ~gcDelete
    /\ st.UnusedCount = 1 /\ st.InUseCount = 1 /\ st.UndeletedCount = 1
    /\ err = ErrDryRun

\* C8 (as stated) Final Flush regardless of gcDelete: whenever the mark and
\* the sweep complete without a store error, Run calls a final Flush before
\* it returns.
C8_AsStated ==
    (pc = "Done" /\ SweepCompleted) => FinalFlushCalled

\* C8 (amended) Whenever the mark and the sweep complete without a store
\* error, Run calls a final Flush before it returns, with and without
\* gcDelete, unless gcDelete is false and the unused count is above zero:
\* then Run returns the dry-run error and calls no Flush.
C8_FinalFlush ==
    (pc = "Done" /\ SweepCompleted)
    => IF ~gcDelete /\ unused.count > 0
       THEN /\ err = ErrDryRun
            /\ \A i \in 1..Len(calls) : calls[i].op # "Flush"
       ELSE /\ calls[Len(calls)].op = "Flush" /\ calls[Len(calls)].final
            /\ err = (IF calls[Len(calls)].ok THEN ErrNone ELSE ErrFlush)

C8_Witness ==
    /\ pc = "Done" /\ SweepCompleted /\ ~gcDelete /\ unused.count = 0
    /\ tooRecent.count > 0 /\ FinalFlushCalled /\ err = ErrNone

\* C9 Error transitions: if the mark fails, Run is done with an error and has
\* called none of IterateContents, DeleteContent, UndeleteContent, Flush; if
\* the sweep fails, Run returns an error without the final Flush; either way
\* the Stats returned are exactly what was accounted before the failure.
C9_ErrorTransitions ==
    /\ (pc = "Done" /\ ~SweepStarted)
       => err = ErrMark /\ calls = <<>> /\ st = ZeroStats /\ AccountedStats = ZeroStats
    /\ (pc = "Done" /\ SweepStarted /\ iterErr # ErrNone)
       => err = ErrIterate /\ ~FinalFlushCalled /\ st = AccountedStats
    /\ (pc = "Done" /\ err = ErrMark) => ~SweepStarted
    /\ CountersMatch

C9_Witness ==
    /\ pc = "Done" /\ err = ErrIterate /\ gcDelete
    /\ FailedOn("DeleteContent", DataID(2))
    /\ st.UnusedCount = 2 /\ st.InUseCount = 0

-----------------------------------------------------------------------------
\* Claims about the pack index.

\* the entries the builder holds
Entries == {bld[id] : id \in DOMAIN bld}

EqualKeyLength ==
    \A a, b \in DOMAIN bld : Len(contentIDToBytes(a)) = Len(contentIDToBytes(b))

AllValid == \A it \in Entries : ValidMetadata(it)

\* the last operation iterated the entire range
IteratedAll ==
    /\ ipc = "Read"
    /\ lastOp.op = "Iterate"
    /\ lastOp.fault = NoFault
    /\ lastOp.startID = AllIDsStart
    /\ lastOp.endID = AllIDsEnd

\* C10 Index round-trip: for a set of entries with distinct content IDs of
\* equal key length and valid metadata, Build succeeds, and opening its
\* output and iterating the entire range hands the callback each entry once,
\* in ascending key order, with timestamp, pack blob ID, pack offset, packed
\* length, deleted flag and format version equal to the input's.
C10_RoundTrip ==
    /\ (ipc = "Built" /\ EqualKeyLength /\ AllValid) => buildErr = "none"
    /\ (IteratedAll /\ AllValid)
       => /\ opErr = "none"
          /\ Len(out) = Cardinality(Entries)
          /\ \A it \in Entries : \E i \in 1..Len(out) : out[i] = it
          /\ \A i, j \in 1..Len(out) :
                i < j => Less(contentIDToBytes(out[i].contentID),
                              contentIDToBytes(out[j].contentID))

C10_Witness ==
    /\ IteratedAll /\ AllValid
    /\ Len(out) = 3
    /\ out[1].deleted /\ ~out[2].deleted
    /\ out[1].packBlobID # out[3].packBlobID
    /\ out[2].packBlobID = out[3].packBlobID
    /\ out[3].timestampSeconds = <<0, 0, 255, 255, 255, 255, 255, 255>>
    /\ Len(out[1].contentID) = 5

\* GetInfo has returned, all its reads having succeeded
GotInfo ==
    /\ ipc = "Read"
    /\ lastOp.op = "GetInfo"
    /\ lastOp.fault = NoFault

\* the ID asked for has the first characters of an entry's ID and its length,
\* and is not that entry's
SharesPrefix(id) ==
    \E it \in Entries :
       /\ it.contentID # id
       /\ Len(it.contentID) = Len(id)
       /\ SubSeq(it.contentID, 1, Len(id) - 1) = SubSeq(id, 1, Len(id) - 1)

\* GetInfo returned the Info of the entry with that ID
ReturnedEntry(id) ==
    /\ opErr = "none"
    /\ Len(out) = 1
    /\ out[1].contentID = id
    /\ ValidMetadata(bld[id]) => out[1] = bld[id]

\* GetInfo returned none: no Info and no error
ReturnedNone == opErr = "none" /\ out = <<>>

\* what GetInfo answers of the ID asked for: its entry; none; or, for an ID
\* of another key length than the index's, an error
MembershipAnswered ==
    LET id == lastOp.contentID
    IN  IF id \in DOMAIN bld THEN ReturnedEntry(id)
        ELSE IF bld = <<>> \/ Len(contentIDToBytes(id)) = hdr.keySize
        THEN ReturnedNone
        ELSE opErr = "invalid content ID" /\ out = <<>>

\* C11 as the claim states it: GetInfo(id) returns an Info for every id in
\* S and none, without an error, for every id not in S.
C11_AsStated ==
    GotInfo
    => IF lastOp.contentID \in DOMAIN bld
       THEN ReturnedEntry(lastOp.contentID)
       ELSE ReturnedNone

\* C11 GetInfo membership: for an index built from a set S, GetInfo(id)
\* returns an Info with id as its content ID (and the entry's metadata) for
\* every id in S; for an id not in S it returns none, without an error, if S
\* is empty or the id's encoded key has the index's key length (an id that
\* shares a prefix with a member included), and an error and no Info if the
\* key length differs.
C11_Membership == GotInfo => MembershipAnswered

C11_Witness ==
    /\ GotInfo
    /\ Cardinality(Entries) = 3
    /\ lastOp.contentID \notin DOMAIN bld
    /\ SharesPrefix(lastOp.contentID)
    /\ ReturnedNone

\* Iterate has returned, all its reads having succeeded
Iterated ==
    /\ ipc = "Read"
    /\ lastOp.op = "Iterate"
    /\ lastOp.fault = NoFault

\* start <= id < end, as Go compares the ID strings
InRange(id, startID, endID) == ~Less(id, startID) /\ Less(id, endID)

\* the IDs of S in the range asked for
IDsInRange ==
    {id \in DOMAIN bld : InRange(id, lastOp.startID, lastOp.endID)}

\* the callback was handed the entries of the range, and only them, each
\* once and in ascending order, and Iterate returned no error
RangeHanded ==
    /\ opErr = "none"
    /\ Len(out) = Cardinality(IDsInRange)
    /\ \A id \in IDsInRange : \E i \in 1..Len(out) : out[i].contentID = id
    /\ \A i \in 1..Len(out) :
          /\ out[i].contentID \in IDsInRange
          /\ ValidMetadata(bld[out[i].contentID])
             => out[i] = bld[out[i].contentID]
    /\ \A i, j \in 1..Len(out) :
          i < j => Less(out[i].contentID, out[j].contentID)
    /\ ~Less(lastOp.startID, lastOp.endID) => out = <<>>

\* C12 Range iteration: for an index built from a set S and any range
\* {start, end}, Iterate returns no error and hands the callback exactly the
\* entries of S with start <= id < end, each once, in ascending order of ID,
\* and none outside the range; an empty or inverted range yields no callback.
C12_RangeIteration == Iterated => RangeHanded

C12_Witness ==
    /\ Iterated
    /\ Len(out) = 1
    /\ out[1].contentID = lastOp.startID
    /\ \E id \in DOMAIN bld : Less(id, lastOp.startID)
    /\ \E id \in DOMAIN bld : ~Less(id, lastOp.endID)

\* Build has emitted an index
Emitted == ipc # "Adding" /\ buildErr = "none"

\* the 20 bytes of the entry of id in the emitted index: its row is as far
\* down as there are smaller keys
EntryBytes(id) ==
    LET key == contentIDToBytes(id)
        row == Cardinality({other \in DOMAIN bld :
                               Less(contentIDToBytes(other), key)})
        off == packHeaderSize + row * (Len(key) + entryFixedHeaderLength)
                 + Len(key)
    IN  Slice(file, off, off + entryFixedHeaderLength)

\* the most significant bit of bytes 12..15 of an entry
MarkerSet(entry) == entry[13] >= 128

\* the entry of id reads back with the deleted flag and pack offset given
ReadsBack(id, del, off) ==
    \E i \in 1..Len(out) :
       /\ out[i].contentID = id
       /\ out[i].deleted = del
       /\ out[i].packOffset = off

\* C13 as the claim states it: the marker bit is set iff the entry is marked
\* deleted, and flag and offset read back equal, for every 32-bit pack offset.
C13_AsStated ==
    /\ Emitted => \A id \in DOMAIN bld :
                     MarkerSet(EntryBytes(id)) <=> bld[id].deleted
    /\ IteratedAll => \A id \in DOMAIN bld :
                         ReadsBack(id, bld[id].deleted, bld[id].packOffset)

\* C13 Tombstone encoding: for every entry written by the builder whose pack
\* offset is below 2^31, the most significant bit of bytes 12..15 is set if
\* and only if the entry is marked deleted, and on read-back GetDeleted()
\* equals the input deleted flag and GetPackOffset() the input pack offset.
\* An entry whose pack offset is 2^31 or more is written with the bit set
\* and reads back as deleted, with the offset less 2^31.
C13_TombstoneEncoding ==
    /\ Emitted
       => \A id \in DOMAIN bld :
             IF bld[id].packOffset[1] < 128
             THEN MarkerSet(EntryBytes(id)) <=> bld[id].deleted
             ELSE MarkerSet(EntryBytes(id))
    /\ IteratedAll
       => \A id \in DOMAIN bld :
             IF bld[id].packOffset[1] < 128
             THEN ReadsBack(id, bld[id].deleted, bld[id].packOffset)
             ELSE ReadsBack(id, TRUE,
                            [bld[id].packOffset
                               EXCEPT ![1] = bld[id].packOffset[1] - 128])

C13_Witness ==
    /\ IteratedAll
    /\ \E a, b \in DOMAIN bld :
          /\ bld[a].deleted /\ bld[a].packOffset = <<1, 2, 3, 4>>
          /\ MarkerSet(EntryBytes(a))
          /\ ReadsBack(a, TRUE, <<1, 2, 3, 4>>)
          /\ ~bld[b].deleted /\ bld[b].packOffset = <<127, 255, 255, 255>>
          /\ ~MarkerSet(EntryBytes(b))
          /\ ReadsBack(b, FALSE, <<127, 255, 255, 255>>)

\* the read that was to fail was issued
FaultHit ==
    /\ lastOp.fault # NoFault
    /\ \E i \in 1..Len(issued) :
          issued[i] = Read(lastOp.fault.site, lastOp.fault.row)

\* the reads Iterate's loop issued
RowReads == {i \in 1..Len(issued) : issued[i].site = "row"}

\* the operation reported its failure: a non-nil error, no Info from GetInfo,
\* and from Iterate only the callbacks of the rows read before the failing
\* read, each with its entry
FailureReported ==
    /\ opErr # "none"
    /\ lastOp.op = "GetInfo" => out = <<>>
    /\ lastOp.op = "Iterate"
       => /\ Len(out) < Cardinality(RowReads) \/ out = <<>>
          /\ lastOp.fault.site = "search" => out = <<>>
          /\ \A i \in 1..Len(out) : out[i] = bld[out[i].contentID]

\* the call made again after the failure answered as one on a reader that
\* never failed
AnsweredAsUnfailed ==
    IF lastOp.op = "Iterate" THEN RangeHanded ELSE MembershipAnswered

\* C14 Reader failure semantics, as the claim states it: whenever a ReadAt
\* issued by Iterate or GetInfo returns an error or fewer bytes than asked,
\* the operation returns a non-nil error, reports no result built from the
\* partial data and makes no further callback; and the same call made again
\* on the reader, its reads succeeding, returns what it would have returned
\* had the failure not happened.
C14_AsStated ==
    /\ (ipc = "Failed" /\ FaultHit) => FailureReported
    /\ ipc = "ReadAgain" => AnsweredAsUnfailed

\* What holds of C14: the same, for a ReadAt that returns a non-nil error.
\* (A ReadAt that returns fewer bytes and a nil error is not reported.)
C14_ReadErrors ==
    /\ (ipc = "Failed" /\ FaultHit /\ lastOp.fault.kind = "error")
       => FailureReported
    /\ ipc = "ReadAgain" => AnsweredAsUnfailed

\* Iterate's read of the second of three rows in range returns fewer bytes
\* and no error: Iterate returns nil after one callback
C14_Witness ==
    /\ ipc = "Failed"
    /\ FaultHit
    /\ lastOp.op = "Iterate"
    /\ lastOp.fault = [site |-> "row", row |-> 1, kind |-> "short"]
    /\ Cardinality(IDsInRange) = 3
    /\ opErr = "none"
    /\ Len(out) = 1

-----------------------------------------------------------------------------
\* Claims about the order of the run's steps.

\* some content has been classified
Classifying == \E c \in ContentIDs : Handed(c)

\* the sweep has not begun: no call to the store, no content handed to the
\* callback, nothing counted
NoSweepYet ==
    /\ calls = <<>>
    /\ ~Classifying
    /\ \A c \in ContentIDs : acct[c] = <<>>
    /\ remaining = {}

\* once the sweep has begun the walk has returned, having visited every
\* object
MarkBeforeSweep ==
    /\ pc \in {"Idle", "Marking", "Walking"} => NoSweepYet
    /\ SweepStarted => objectsLeft = 0

\* once the sweep has begun the live set does not change
LiveSetQuiescent == SweepStarted => used' = used

\* C15 Mark strictly precedes sweep: within a Run no sweep classification
\* (no IterateContents callback, DeleteContent or UndeleteContent) happens
\* before the snapshot walk has returned with every object visited, and no
\* content ID is inserted into the live set once the sweep has begun, so
\* every classification reads the complete, quiescent live set.
C15_MarkPrecedesSweep == [](MarkBeforeSweep) /\ [][LiveSetQuiescent]_vars

C15_Witness ==
    /\ pc = "Sweeping"
    /\ Cardinality(used) = 2
    /\ \E c \in used : Handed(c) /\ acct[c] = <<"inUse">>
    /\ \E c \in ContentIDs \ used : Handed(c) /\ acct[c] = <<"unused">>
    /\ remaining # {}

-----------------------------------------------------------------------------
\* Claims about the run beside a writer.

\* c is referenced by a committed manifest
Referenced(c) == \E m \in committed : c \in m.refs

\* Run called DeleteContent on c
DeleteCalled(c) == CalledOn("DeleteContent", c)

\* the time from the writing of c to the commit of m
Gap(m, c) == m.at - timestamp[c]

\* the time from the mark's listing of the manifests to the classification
\* of c
SinceListing(c) == seenAt[c] - listedAt

\* every manifest was committed after, and within the safety window of, the
\* writing of each content it references
CommittedWithinWindow ==
    \A m \in committed : \A c \in m.refs : Gap(m, c) >= 0 /\ Gap(m, c) < minAge

Protects(m, c) ==
    \/ m \in listed
    \/ Gap(m, c) >= 0 /\ Gap(m, c) + SinceListing(c) < minAge

-----------------------------------------------------------------------------
\* Claims about the sweep's calls.

\* call i is a DeleteContent or UndeleteContent that returned an error
MutationFailedAt(i) ==
    calls[i].op \in {"DeleteContent", "UndeleteContent"} /\ ~calls[i].ok

MutationFailed == \E i \in 1..Len(calls) : MutationFailedAt(i)

\* after a failed mutation: it is the last call made; the content of a
\* failed undelete is counted neither as undeleted nor as inUse and keeps its
\* tombstone; no content is handed to the callback any more that was not; and
\* when Run has returned, it has returned an error and the Stats of the
\* additions made until the failure
AbortedAtFailure ==
    \A i \in 1..Len(calls) :
       MutationFailedAt(i)
       => /\ i = Len(calls)
          /\ calls[i].op = "UndeleteContent"
             => /\ acct[calls[i].id] = <<>>
                /\ deleted[calls[i].id]
          /\ calls[i].op = "DeleteContent"
             => /\ acct[calls[i].id] = <<"unused">>
                /\ deleted[calls[i].id] = deleted0[calls[i].id]
          /\ CountersMatch
          /\ pc \in {"Sweeping", "Done"}
          /\ pc = "Done" => err = ErrIterate /\ st = AccountedStats

\* after a failed mutation nothing is called, counted or changed in the store
FrozenAfterFailure ==
    MutationFailed
    => /\ calls' = calls
       /\ acct' = acct
       /\ seenAt' = seenAt
       /\ deleted' = deleted
       /\ <<unused', inUse', system', tooRecent', undeleted'>>
             = <<unused, inUse, system, tooRecent, undeleted>>

\* C17 Sweep mutation errors abort immediately: once a DeleteContent or
\* UndeleteContent call returns an error during the sweep, Run makes no
\* further DeleteContent, UndeleteContent or Flush call, the content whose
\* undelete failed is not added to undeleted or inUse, and Run returns a
\* non-nil error with the statistics as they stood at that point.
C17_MutationErrorsAbort == [](AbortedAtFailure) /\ [][FrozenAfterFailure]_vars

C17_Witness ==
    /\ pc = "Done"
    /\ calls # <<>>
    /\ MutationFailedAt(Len(calls))
    /\ calls[Len(calls)].op = "UndeleteContent"
    /\ remaining # {}
    /\ st.UnusedCount = 1
    /\ st.InUseCount = 0
    /\ err = ErrIterate

\* the number of DeleteContent calls among the first i calls
RECURSIVE DeletesUpTo(_)
DeletesUpTo(i) ==
    IF i = 0 THEN 0
    ELSE DeletesUpTo(i - 1) + (IF calls[i].op = "DeleteContent" THEN 1 ELSE 0)

\* call i is a checkpoint Flush: a Flush made from inside the callback
CheckpointAt(i) == calls[i].op = "Flush" /\ ~calls[i].final

Checkpoints == Cardinality({i \in 1..Len(calls) : CheckpointAt(i)})

\* call i is the DeleteContent of the entry with which the running unused
\* count reached a multiple of the period
ReachedMultipleAt(i) ==
    /\ calls[i].op = "DeleteContent"
    /\ DeletesUpTo(i) % CheckpointPeriod = 0

\* C18 as it is stated: one checkpoint Flush for each multiple of the period
\* that the running unused count has reached if doDelete, none otherwise
C18_AsStated ==
    Checkpoints = IF gcDelete THEN unused.count \div CheckpointPeriod ELSE 0

\* C18 Periodic checkpoint: with doDelete, every unused entry is passed to
\* DeleteContent; the DeleteContent with which the running unused count
\* reaches a multiple of the checkpoint period is followed at once by a
\* Flush exactly if it succeeded, and no other Flush is made from the
\* callback; without doDelete no checkpoint Flush is ever made; a checkpoint
\* Flush that fails is the run's last call and the run returns an error.
C18_PeriodicCheckpoint ==
    /\ gcDelete /\ pc \in {"Sweeping", "Done"}
       => DeletesUpTo(Len(calls)) = unused.count
    /\ ~gcDelete => Checkpoints = 0
    /\ \A i \in 1..Len(calls) :
          ReachedMultipleAt(i)
          => (calls[i].ok <=> (i < Len(calls) /\ CheckpointAt(i + 1)))
    /\ \A j \in 1..Len(calls) :
          CheckpointAt(j)
          => /\ gcDelete
             /\ j > 1
             /\ ReachedMultipleAt(j - 1)
             /\ calls[j - 1].ok
             /\ ~calls[j].ok
                => /\ j = Len(calls)
                   /\ iterErr = ErrFlush
                   /\ pc = "Done" => err = ErrIterate

C18_Witness ==
    /\ pc = "Done"
    /\ gcDelete
    /\ unused.count = CheckpointPeriod
    /\ Len(calls) > 1
    /\ CheckpointAt(Len(calls))
    /\ ~calls[Len(calls)].ok
    /\ err = ErrIterate

-----------------------------------------------------------------------------
\* Claims about what Build emits.

\* Build has returned
BuildReturned == ipc # "Adding"

\* the encoded key of an entry
EncodedKey(it) == contentIDToBytes(it.contentID)

\* it is not the first entry in sorted order, and its encoded key is of
\* another length than that entry's
OtherKeyLength(it) ==
    \E first \in Entries :
       /\ \A other \in Entries \ {first} :
             Less(EncodedKey(first), EncodedKey(other))
       /\ Len(EncodedKey(it)) # Len(EncodedKey(first))

EmptyPackBlobID(it) == it.packBlobID = <<>>

\* C19 Builder rejection: Build returns an error if any entry's encoded key
\* length differs from the key length of the first sorted entry, or if any
\* entry has an empty pack blob ID; Build then does not report success, and
\* the index is not opened.
C19_BuilderRejection ==
    /\ BuildReturned
    /\ \E it \in Entries : OtherKeyLength(it) \/ EmptyPackBlobID(it)
    => /\ buildErr # "none"
       /\ ipc = "Built"

C19_Witness ==
    /\ BuildReturned
    /\ \E it \in Entries : OtherKeyLength(it)
    /\ \A it \in Entries : ~EmptyPackBlobID(it)
    /\ buildErr = "inconsistent key length"

\* the extra-data region of the emitted index: from the end of the entries
\* to the start of the random suffix
ExtraDataStart ==
    IF bld = <<>> THEN packHeaderSize
    ELSE packHeaderSize
           + Cardinality(DOMAIN bld)
               * (Len(contentIDToBytes(CHOOSE id \in DOMAIN bld : TRUE))
                    + entryFixedHeaderLength)

ExtraDataEnd == Len(file) - randomSuffixSize

\* the (offset, length) pair stored in the entry of id: bytes 8..11 and 7
StoredOffset(id) == Decode(Slice(EntryBytes(id), 8, 12))
StoredLength(id) == EntryBytes(id)[8]

\* the distinct pack blob IDs of the builder's entries
DistinctPackBlobIDs == {it.packBlobID : it \in Entries}

RECURSIVE TotalLength(_)
TotalLength(S) ==
    IF S = {} THEN 0
    ELSE LET x == CHOOSE x \in S : TRUE IN Len(x) + TotalLength(S \ {x})

\* the slices of two entries are one slice if their pack blob IDs are equal
\* and do not overlap otherwise
OneSliceEach ==
    \A a, b \in DOMAIN bld :
       IF bld[a].packBlobID = bld[b].packBlobID
       THEN StoredOffset(a) = StoredOffset(b)
       ELSE \/ StoredOffset(a) + StoredLength(a) <= StoredOffset(b)
            \/ StoredOffset(b) + StoredLength(b) <= StoredOffset(a)

-----------------------------------------------------------------------------
\* Claims about the index without entries.

\* Build has returned for a builder that holds no entry
BuiltOfNothing == ipc # "Adding" /\ bld = <<>>

\* the index built of nothing has been opened
OpenedOfNothing == BuiltOfNothing /\ ipc # "Built"

\* IDs of every length from none to six characters, bare and prefixed
ProbeDigests == {<<>>, <<0>>, <<10, 16>>, <<171, 0, 255>>}
ProbeIDs == {p \o HexEncodeToString(d) : p \in {<<>>, <<107>>}, d \in ProbeDigests}

\* C21 Empty index: Build over an empty collection of entries succeeds and
\* emits the header, no rows, empty extra data and the 32-byte suffix, with
\* entry count 0 and the unknown-key-size sentinel as key size; on the opened
\* index GetInfo returns none without error for an ID of any length, and
\* Iterate over any range makes no callback and returns no error.
C21_EmptyIndex ==
    /\ BuiltOfNothing
       => /\ buildErr = "none"
          /\ Len(file) = packHeaderSize + randomSuffixSize
          /\ Slice(file, 0, packHeaderSize)
               = <<1, unknownKeySize, 0, entryFixedHeaderLength, 0, 0, 0, 0>>
          /\ From(file, packHeaderSize) \in RandomSuffixes
    /\ OpenedOfNothing
       => /\ hdr.err = "none"
          /\ hdr.keySize = unknownKeySize
          /\ hdr.entryCount = 0
          /\ \A id \in ProbeIDs \cup IndexIDs :
                GetInfo(file, hdr, NoFault, id)
                  = [err |-> "none", out |-> <<>>, reads |-> <<>>]
          /\ \A startID \in RangeEnds, endID \in RangeEnds :
                LET r == Iterate(file, hdr, NoFault, startID, endID)
                IN  r.err = "none" /\ r.out = <<>>
          /\ ipc = "Read" => opErr = "none" /\ out = <<>>

C21_Witness ==
    /\ OpenedOfNothing
    /\ GotInfo
    /\ Len(lastOp.contentID) % 2 = 1
    /\ ReturnedNone

-----------------------------------------------------------------------------
\* Claims about the classification as a whole.

FourCategories == {"system", "inUse", "tooRecent", "unused"}

\* how often c was added to one of the four categories
TimesClassified(c) ==
    Times("system", c) + Times("inUse", c) + Times("tooRecent", c)
      + Times("unused", c)

\* the contents in the live set that had a tombstone when Run was called
TombstonedLive == {c \in contents : c \in used /\ deleted0[c]}

-----------------------------------------------------------------------------
\* Claims about what a dry run changes.

\* call i is a successful UndeleteContent of c
UndeletedAt(i, c) ==
    calls[i].op = "UndeleteContent" /\ calls[i].id = c /\ calls[i].ok

\* C23 Mutations of a dry run: with doDelete=false Run never calls
\* DeleteContent and never a checkpoint Flush; the only store mutation it
\* makes is UndeleteContent, on contents that are in the live set and had a
\* tombstone; so every content outside the live set has the tombstone state
\* it had before Run, and a content inside it differs only by a tombstone
\* that a successful UndeleteContent cleared.
C23_DryRunMutations ==
    ~gcDelete
    => /\ \A i \in 1..Len(calls) :
             /\ calls[i].op \in {"IterateContents", "UndeleteContent", "Flush"}
             /\ calls[i].op = "Flush" => calls[i].final /\ i = Len(calls)
             /\ calls[i].op = "UndeleteContent"
                => /\ calls[i].id \in used
                   /\ calls[i].id \in contents
                   /\ deleted0[calls[i].id]
       /\ \A c \in ContentIDs \ used : deleted[c] = deleted0[c]
       /\ \A c \in used :
             deleted[c] # deleted0[c]
             => /\ deleted0[c]
                /\ \E i \in 1..Len(calls) : UndeletedAt(i, c)

\* a dry run that returned after undeleting a content of the live set and
\* counting as unused two contents outside it, one of them tombstoned
C23_Witness ==
    /\ pc = "Done"
    /\ ~gcDelete
    /\ err = ErrDryRun
    /\ \E c \in used : deleted0[c] /\ ~deleted[c]
    /\ \E c \in contents \ used :
          deleted0[c] /\ deleted[c] /\ acct[c] = <<"unused">>
    /\ st.UnusedCount >= 1
    /\ st.UndeletedCount = 1

=============================================================================
